---- MODULE Spec2Model ----
(***************************************************************************)
(* Model of src/app.py: a Streamlit script that loads three tables through *)
(* a process-wide memo (@st.cache_data), reads a stage and a weight from   *)
(* two widgets, looks up the processing parameters of the stage, scales    *)
(* six nutrition fields by weight/100 and, when the sidebar button was     *)
(* pressed, offers the nutrition table as a dated CSV download.            *)
(*                                                                         *)
(* Numbers are decimal fixed-point values counted in thousandths, so that  *)
(* 21.4 is 21400 and the products the script forms (value * weight/100)    *)
(* are represented without loss.  Cyrillic column and stage names are      *)
(* transliterated.                                                         *)
(***************************************************************************)
EXTENDS Integers, Sequences, FiniteSets, TLC

VARIABLES cache, sess, bodyRuns, clock, call

vars == <<cache, sess, bodyRuns, clock, call>>

-----------------------------------------------------------------------------
(* Bounds of the model *)

\* number of distinct states the ambient random generator may be in at load
NumSeeds == 2
\* number of midnights that may pass while the process runs
MaxDays == 1
\* how far from each end of the allowed range the entered weights reach
MaxTyped == 0

-----------------------------------------------------------------------------
(* Program constants *)

min_value == 1
max_value == 500
value == 50
NumBatches == 20

Sessions == {"s1", "s2"}
Seeds == 1..NumSeeds

-----------------------------------------------------------------------------
(* Decimal numbers, in thousandths *)

Num(n) == n * 1000
Dec(n, tenths) == n * 1000 + tenths * 100

\* Python's true division a / b of two integers
TrueDivInt(a, b) == (a * 1000) \div b

\* product of two decimals: (a * b) / 1000, formed from the whole and the
\* fractional part of a so that no intermediate value leaves 32 bits
Times(a, b) == (a \div 1000) * b + ((a % 1000) * b) \div 1000

-----------------------------------------------------------------------------
(* pandas *)

\* pd.DataFrame(dict of columns): rows labelled 0..n-1
DataFrame(data, n) ==
    [index |-> [i \in 1..n |-> i - 1],
     rows  |-> [i \in 1..n |-> [c \in DOMAIN data |-> data[c][i]]]]

\* df[df[col] == v]: the rows whose column equals v, with their labels
BoolIndex(df, col, v) ==
    LET pos == SelectSeq([i \in 1..Len(df.rows) |-> i],
                         LAMBDA i : df.rows[i][col] = v)
    IN  [index |-> [k \in 1..Len(pos) |-> df.index[pos[k]]],
         rows  |-> [k \in 1..Len(pos) |-> df.rows[pos[k]]]]

\* df[col]: one column, as a sequence
Column(df, col) == [i \in 1..Len(df.rows) |-> df.rows[i][col]]

-----------------------------------------------------------------------------
(* The dataset *)

\* Faulty variant of nutrition_data: a sign slipped into one sodium value
nutrition_data_negative ==
    [Etap         |-> <<"Svezhaya konina", "Poluvyalenaya konina",
                        "Polnostyu vyalenaya konina">>,
     Vlaga_pct    |-> <<Dec(73, 0), Dec(45, 0), Dec(18, 0)>>,
     Belki_g      |-> <<Dec(21, 4), Dec(35, 2), Dec(48, 5)>>,
     Zhiry_g      |-> <<Dec(2, 7), Dec(4, 5), Dec(6, 2)>>,
     Kalorii_kkal |-> <<Num(113), Num(186), Num(256)>>,
     Natriy_mg    |-> <<Num(0 - 53), Num(850), Num(1200)>>,
     Zhelezo_mg   |-> <<Dec(3, 2), Dec(5, 3), Dec(7, 4)>>,
     Tsink_mg     |-> <<Dec(4, 8), Dec(7, 9), Dec(11, 2)>>]

nutrition_data ==
    [Etap         |-> <<"Svezhaya konina", "Poluvyalenaya konina",
                        "Polnostyu vyalenaya konina">>,
     Vlaga_pct    |-> <<Dec(73, 0), Dec(45, 0), Dec(18, 0)>>,
     Belki_g      |-> <<Dec(21, 4), Dec(35, 2), Dec(48, 5)>>,
     Zhiry_g      |-> <<Dec(2, 7), Dec(4, 5), Dec(6, 2)>>,
     Kalorii_kkal |-> <<Num(113), Num(186), Num(256)>>,
     Natriy_mg    |-> <<Num(53), Num(850), Num(1200)>>,
     Zhelezo_mg   |-> <<Dec(3, 2), Dec(5, 3), Dec(7, 4)>>,
     Tsink_mg     |-> <<Dec(4, 8), Dec(7, 9), Dec(11, 2)>>]

processing_params ==
    [Vremya_zasolki_dni        |-> <<3, 5, 7>>,
     Temperatura_sushki_C      |-> <<12, 15, 18>>,
     Otnositelnaya_vlazhnost_pct |-> <<70, 65, 60>>,
     Vremya_sushki_dni         |-> <<15, 21, 30>>]

\* f'KM{i:02d}'
BatchId(i) == <<"KM", i \div 10, i % 10>>

\* np.random.normal(mean, sd, n): n draws from the global generator, which is
\* in state seed and has already produced `drawn` values.  A draw is the mean
\* plus a whole number of standard deviations fixed by the generator's state
\* and the position in its stream.
normal(seed, drawn, mean, sd, n) ==
    [i \in 1..n |->
        mean + sd * (((seed * seed + seed * (drawn + i) + (drawn + i) \div 3) % 5) - 2)]

quality_data(seed) ==
    [Partiya   |-> [i \in 1..NumBatches |-> BatchId(i)],
     Vlaga_pct |-> normal(seed, 0, Num(25), Num(5), NumBatches),
     Sol_pct   |-> normal(seed, NumBatches, Num(6), Num(1), NumBatches),
     Belki_pct |-> normal(seed, 2 * NumBatches, Num(45), Num(3), NumBatches),
     pH        |-> normal(seed, 3 * NumBatches, Dec(5, 6), Dec(0, 3), NumBatches),
     aw        |-> normal(seed, 4 * NumBatches, 820, 50, NumBatches)]

\* the body of load_horsemeat_jerky_data, run with the generator in state seed
load_horsemeat_jerky_data(seed) ==
    [nutrition_df  |-> DataFrame(nutrition_data, Len(nutrition_data.Etap)),
     processing_df |-> DataFrame(processing_params,
                                 Len(processing_params.Vremya_zasolki_dni)),
     quality_df    |-> DataFrame(quality_data(seed), NumBatches)]

-----------------------------------------------------------------------------
(* Exceptions: a call either returns <<v>> in val or raises err *)

Ok(v) == [err |-> "", val |-> <<v>>]
Raise(e) == [err |-> e, val |-> <<>>]

-----------------------------------------------------------------------------
(* The calendar *)

StartDate == [year |-> 2026, month |-> 12, day |-> 31]

DaysInMonth(y, m) ==
    IF m = 2
    THEN (IF (y % 4 = 0 /\ y % 100 # 0) \/ y % 400 = 0 THEN 29 ELSE 28)
    ELSE IF m \in {4, 6, 9, 11} THEN 30 ELSE 31

NextDay(d) ==
    IF d.day < DaysInMonth(d.year, d.month)
    THEN [d EXCEPT !.day = d.day + 1]
    ELSE IF d.month < 12
    THEN [d EXCEPT !.month = d.month + 1, !.day = 1]
    ELSE [year |-> d.year + 1, month |-> 1, day |-> 1]

RECURSIVE AddDays(_, _)
AddDays(d, n) == IF n = 0 THEN d ELSE AddDays(NextDay(d), n - 1)

\* datetime.now(), with the process started on StartDate
now(elapsed) == AddDays(StartDate, elapsed)

RECURSIVE Pow10(_)
Pow10(k) == IF k = 0 THEN 1 ELSE 10 * Pow10(k - 1)

\* the decimal digits of n, zero-padded to width
Digits(n, width) == [i \in 1..width |-> (n \div Pow10(width - i)) % 10]

\* d.strftime('%Y%m%d')
strftime_Ymd(d) == Digits(d.year, 4) \o Digits(d.month, 2) \o Digits(d.day, 2)

-----------------------------------------------------------------------------
(* CSV export *)

NutritionColumns ==
    <<"Etap", "Vlaga_pct", "Belki_g", "Zhiry_g", "Kalorii_kkal", "Natriy_mg",
      "Zhelezo_mg", "Tsink_mg">>

\* the dtype pandas infers for each column of nutrition_data
IntColumns == {"Kalorii_kkal", "Natriy_mg"}
TextColumns == {"Etap"}

\* the text of one cell: a string as it is, an int64 as its digits, a float64
\* with its decimal point and first decimal
CsvCell(col, v) ==
    IF col \in TextColumns THEN <<v>>
    ELSE IF col \in IntColumns THEN <<v \div 1000>>
    ELSE <<v \div 1000, ".", (v % 1000) \div 100>>

\* nutrition_df.to_csv(index=False): the header line, then one line per row
to_csv(df) ==
    <<[k \in 1..Len(NutritionColumns) |-> <<NutritionColumns[k]>>]>>
    \o [i \in 1..Len(df.rows) |->
          [k \in 1..Len(NutritionColumns) |->
              CsvCell(NutritionColumns[k], df.rows[i][NutritionColumns[k]])]]

FilePrefix == "dannye_pitatelnosti_vyalenoy_koniny"

file_name(d) == <<FilePrefix, "_">> \o strftime_Ymd(d) \o <<".csv">>

\* st.sidebar.download_button(...): the download the pass offers
download_button(df, d) ==
    [label |-> "Podtverdit skachivanie CSV", data |-> to_csv(df),
     file_name |-> file_name(d), mime |-> "text/csv"]

-----------------------------------------------------------------------------
(* Stage lookup and scaling *)

\* Faulty variant of stage_index: the position of the match within the
\* selection instead of its label in the table
stage_index_positional(nutrition_df, product_stage) ==
    LET sel == BoolIndex(nutrition_df, "Etap", product_stage)
    IN  IF sel.index = <<>> THEN Raise("IndexError") ELSE Ok(0)

\* Faulty variant of stage_index: falls back to the first row when no row
\* matches
stage_index_default(nutrition_df, product_stage) ==
    LET sel == BoolIndex(nutrition_df, "Etap", product_stage)
    IN  IF sel.index = <<>> THEN Ok(0) ELSE Ok(sel.index[1])

\* nutrition_df[nutrition_df['Etap'] == product_stage].index[0]
stage_index(nutrition_df, product_stage) ==
    LET sel == BoolIndex(nutrition_df, "Etap", product_stage)
    IN  IF sel.index = <<>> THEN Raise("IndexError") ELSE Ok(sel.index[1])

\* processing_df[col].iloc[i], for each of the four columns shown
\* (.iloc counts a negative position from the end)
processing_row(processing_df, i) ==
    LET n == Len(processing_df.rows)
        k == IF i < 0 THEN n + i ELSE i
    IN  IF k < 0 \/ k >= n
        THEN Raise("IndexError")
        ELSE Ok([c \in {"Vremya_zasolki_dni", "Temperatura_sushki_C",
                        "Otnositelnaya_vlazhnost_pct", "Vremya_sushki_dni"} |->
                    Column(processing_df, c)[k + 1]])

\* nutrition_df[nutrition_df['Etap'] == product_stage].iloc[0]
stage_data(nutrition_df, product_stage) ==
    LET sel == BoolIndex(nutrition_df, "Etap", product_stage)
    IN  IF sel.rows = <<>> THEN Raise("IndexError") ELSE Ok(sel.rows[1])

\* Faulty variant of weight_factor: floor division, weight // 100
weight_factor_floordiv(weight) == Num(weight \div 100)

\* weight / 100
weight_factor(weight) == TrueDivInt(weight, 100)

\* Faulty variant of nutrition_results: the weight is first clamped into the
\* range of the input widget
nutrition_results_clamped(row, weight) ==
    LET w == IF weight < min_value THEN min_value
             ELSE IF weight > max_value THEN max_value ELSE weight
    IN  [Belki   |-> Times(row.Belki_g, weight_factor(w)),
         Zhiry   |-> Times(row.Zhiry_g, weight_factor(w)),
         Kalorii |-> Times(row.Kalorii_kkal, weight_factor(w)),
         Natriy  |-> Times(row.Natriy_mg, weight_factor(w)),
         Zhelezo |-> Times(row.Zhelezo_mg, weight_factor(w)),
         Tsink   |-> Times(row.Tsink_mg, weight_factor(w))]

nutrition_results(row, weight) ==
    [Belki   |-> Times(row.Belki_g, weight_factor(weight)),
     Zhiry   |-> Times(row.Zhiry_g, weight_factor(weight)),
     Kalorii |-> Times(row.Kalorii_kkal, weight_factor(weight)),
     Natriy  |-> Times(row.Natriy_mg, weight_factor(weight)),
     Zhelezo |-> Times(row.Zhelezo_mg, weight_factor(weight)),
     Tsink   |-> Times(row.Tsink_mg, weight_factor(weight))]

\* the data the charts of the three tabs are built from
Mean(col) ==
    LET RECURSIVE Sum(_)
        Sum(k) == IF k = 0 THEN 0 ELSE col[k] + Sum(k - 1)
    IN  TrueDivInt(Sum(Len(col)), Len(col))

charts(dfs) ==
    [fig1 |-> [x      |-> Column(dfs.nutrition_df, "Etap"),
               Belki  |-> Column(dfs.nutrition_df, "Belki_g"),
               Vlaga  |-> Column(dfs.nutrition_df, "Vlaga_pct")],
     fig2 |-> <<Mean(Column(dfs.processing_df, "Vremya_zasolki_dni")),
                Mean(Column(dfs.processing_df, "Temperatura_sushki_C")),
                Mean(Column(dfs.processing_df, "Otnositelnaya_vlazhnost_pct"))>>,
     \* the remaining figures are given a table and the names of its columns
     fig3 |-> [data_frame |-> "processing_df", x |-> <<"Etap 1", "Etap 2", "Etap 3">>,
               y |-> "Vremya_sushki_dni"],
     fig4 |-> [data_frame |-> "quality_df", x |-> "Vlaga_pct", y |-> "Sol_pct",
               color |-> "Belki_pct", size |-> "pH", hover_data |-> <<"Partiya">>],
     fig5 |-> [data_frame |-> "quality_df", x |-> "Vlaga_pct"],
     fig6 |-> [data_frame |-> "quality_df", x |-> "Sol_pct"],
     fig7 |-> [data_frame |-> "quality_df", x |-> "Belki_pct"]]

-----------------------------------------------------------------------------
(* One run of the script below the widgets *)

\* Faulty variant of tables_after: the scaling is written back into the rows
\* of the selected stage
tables_after_inplace(dfs, product_stage, weight) ==
    [dfs EXCEPT !.nutrition_df.rows =
        [i \in 1..Len(@) |->
            IF @[i].Etap = product_stage
            THEN [@[i] EXCEPT !.Belki_g = Times(@, weight_factor(weight))]
            ELSE @[i]]]

\* the three tables as a run leaves them: the lookup, the scaling, the charts
\* and the export assign to none of them
tables_after(dfs, product_stage, weight) == dfs

\* what a run leaves on the page; a run that raises stops where it raised
Page(error, dfs, product_stage, weight, pressed, idx, params, results, figs, dl) ==
    [error |-> error, dfs |-> tables_after(dfs, product_stage, weight),
     product_stage |-> product_stage,
     weight |-> weight, pressed |-> pressed, stage_index |-> idx,
     params |-> params, nutrition_results |-> results, charts |-> figs,
     download |-> dl]

Script(dfs, product_stage, weight, pressed, today) ==
    LET idx == stage_index(dfs.nutrition_df, product_stage)
    IN  IF idx.err # ""
        THEN Page(idx.err, dfs, product_stage, weight, pressed,
                  <<>>, <<>>, <<>>, <<>>, <<>>)
        ELSE
        LET params == processing_row(dfs.processing_df, idx.val[1])
        IN  IF params.err # ""
            THEN Page(params.err, dfs, product_stage, weight, pressed,
                      idx.val, <<>>, <<>>, <<>>, <<>>)
            ELSE
            LET row == stage_data(dfs.nutrition_df, product_stage)
            IN  IF row.err # ""
                THEN Page(row.err, dfs, product_stage, weight, pressed,
                          idx.val, params.val, <<>>, <<>>, <<>>)
                ELSE Page("", dfs, product_stage, weight, pressed,
                          idx.val, params.val,
                          <<nutrition_results(row.val[1], weight)>>,
                          <<charts(dfs)>>,
                          IF pressed
                          THEN <<download_button(dfs.nutrition_df, today)>>
                          ELSE <<>>)

-----------------------------------------------------------------------------
(* Streamlit: the memo, the widgets, the sessions *)

\* Faulty variant of cache_data: no memo, every call runs the body
cache_data_uncached(c) ==
    {[ran |-> TRUE, value |-> load_horsemeat_jerky_data(seed)] : seed \in Seeds}

\* @st.cache_data on a function without arguments: the results a call may
\* return.  A hit returns the stored value; a miss runs the body, with the
\* random generator in any of its states.
cache_data(c) ==
    IF c # {}
    THEN {[ran |-> FALSE, value |-> d] : d \in c}
    ELSE {[ran |-> TRUE, value |-> load_horsemeat_jerky_data(seed)] : seed \in Seeds}

\* Faulty variant of cache_store: the computed value is not kept
cache_store_forget(c, r) == c

\* what the memo holds after a call returned r
cache_store(c, r) == IF r.ran THEN {r.value} ELSE c

\* st.selectbox(options=...): the option at the position the widget holds
selectbox(options, position) == options[position + 1]

\* Faulty variant of number_input: any entry is taken
number_input_unchecked(current, entered) == entered

\* st.number_input(min_value=1, max_value=500, ...): the value the widget holds
\* after `entered` was entered; an entry outside the range is not taken
number_input(current, entered) ==
    IF min_value <= entered /\ entered <= max_value THEN entered ELSE current

\* Faulty variant of button: the button reads as pressed in every run
button_always(trigger) == TRUE

\* st.sidebar.button(...): true only in the run its own click triggered
button(trigger) == trigger = "button"

\* the weights a user enters, by typing or with the step buttons: the two ends
\* of the range with the values next to them, inside and outside
WeightInputs ==
    ((min_value - 1)..(min_value + MaxTyped))
    \cup ((max_value - MaxTyped)..(max_value + 1))

NoSession == [started |-> FALSE, position |-> 0, number |-> value, page |-> <<>>]

UnknownStage == "Neizvestnyy etap"
StageInputs == {nutrition_data.Etap[i] : i \in 1..Len(nutrition_data.Etap)}
               \cup {UnknownStage}
ScaleWeights == (min_value - 1)..(max_value + 1)

\* the tables a direct call of the lookup and the scaling works on
ScaleTables == load_horsemeat_jerky_data(1)

NoCall == [product_stage |-> nutrition_data.Etap[1], weight |-> value, page |-> <<>>]

\* one run of the whole script in session s, the widgets holding position and
\* number, triggered by `trigger`
Rerun(s, position, number, trigger) ==
    \E r \in cache_data(cache) :
        LET dfs == r.value
            product_stage == selectbox(Column(dfs.nutrition_df, "Etap"), position)
            page == Script(dfs, product_stage, number, button(trigger), now(clock))
        IN  /\ cache' = cache_store(cache, r)
            /\ bodyRuns' = [bodyRuns EXCEPT ![s] = @ + (IF r.ran THEN 1 ELSE 0)]
            /\ sess' = [sess EXCEPT ![s] = [started |-> TRUE, position |-> position,
                                            number |-> number, page |-> <<page>>]]
            /\ UNCHANGED <<clock, call>>

\* a browser opens the page: the first run, the widgets at their defaults
Connect(s) ==
    /\ ~sess[s].started
    /\ Rerun(s, 0, number_input(value, value), "connect")

\* the user picks another option of the stage selector
SelectStage(s, position) ==
    /\ sess[s].started
    /\ position \in 0..(Len(sess[s].page[1].dfs.nutrition_df.rows) - 1)
    /\ position # sess[s].position
    /\ Rerun(s, position, sess[s].number, "selectbox")

\* the user enters another weight
SetWeight(s, entered) ==
    /\ sess[s].started
    /\ number_input(sess[s].number, entered) # sess[s].number
    /\ Rerun(s, sess[s].position, number_input(sess[s].number, entered),
             "number_input")

\* the user presses the export button of the sidebar
PressExport(s) ==
    /\ sess[s].started
    /\ Rerun(s, sess[s].position, sess[s].number, "button")

\* the user presses the download button the last run offered
ConfirmDownload(s) ==
    /\ sess[s].started
    /\ sess[s].page[1].download # <<>>
    /\ Rerun(s, sess[s].position, sess[s].number, "download_button")

\* midnight passes
Tick ==
    /\ clock < MaxDays
    /\ clock' = clock + 1
    /\ UNCHANGED <<cache, sess, bodyRuns, call>>

Init ==
    /\ cache = {}
    /\ sess = [s \in Sessions |-> NoSession]
    /\ bodyRuns = [s \in Sessions |-> 0]
    /\ clock = 0
    /\ call = NoCall

Next ==
    \/ \E s \in Sessions : Connect(s)
    \/ \E s \in Sessions : \E position \in 0..2 : SelectStage(s, position)
    \/ \E s \in Sessions : \E entered \in WeightInputs : SetWeight(s, entered)
    \/ \E s \in Sessions : PressExport(s)
    \/ \E s \in Sessions : ConfirmDownload(s)
    \/ Tick

Spec == Init /\ [][Next]_vars

-----------------------------------------------------------------------------
(* The lookup and the scaling called directly, on any stage name and weight *)

ScaleRun(product_stage, weight) ==
    /\ call' = [product_stage |-> product_stage, weight |-> weight,
                page |-> <<Script(ScaleTables, product_stage, weight, FALSE,
                                  now(clock))>>]
    /\ UNCHANGED <<cache, sess, bodyRuns, clock>>

ScaleCall ==
    /\ call.page = <<>>
    /\ ScaleRun(call.product_stage, call.weight)

ScaleStage(product_stage) ==
    /\ call.page # <<>>
    /\ product_stage # call.product_stage
    /\ ScaleRun(product_stage, call.weight)

ScaleWeight(weight) ==
    /\ call.page # <<>>
    /\ weight # call.weight
    /\ ScaleRun(call.product_stage, weight)

InitScale ==
    /\ cache = {}
    /\ sess = [s \in Sessions |-> NoSession]
    /\ bodyRuns = [s \in Sessions |-> 0]
    /\ clock = 0
    /\ \E product_stage \in StageInputs : \E weight \in ScaleWeights :
          call = [product_stage |-> product_stage, weight |-> weight, page |-> <<>>]

NextScale ==
    \/ ScaleCall
    \/ \E product_stage \in StageInputs : ScaleStage(product_stage)
    \/ \E weight \in ScaleWeights : ScaleWeight(weight)

SpecScale == InitScale /\ [][NextScale]_vars

-----------------------------------------------------------------------------
(* Properties *)

KnownStages == {nutrition_data.Etap[i] : i \in 1..Len(nutrition_data.Etap)}
StagePos(name) == CHOOSE i \in 1..Len(nutrition_data.Etap) : nutrition_data.Etap[i] = name
InRange(w) == min_value <= w /\ w <= max_value

\* the column each scaled field is computed from
FieldColumn ==
    [Belki |-> "Belki_g", Zhiry |-> "Zhiry_g", Kalorii |-> "Kalorii_kkal",
     Natriy |-> "Natriy_mg", Zhelezo |-> "Zhelezo_mg", Tsink |-> "Tsink_mg"]

\* results is the per-100 g row i times w/100 in every field, with no rounding
ExactlyScaled(results, i, w) ==
    /\ DOMAIN results = DOMAIN FieldColumn
    /\ \A f \in DOMAIN FieldColumn :
          results[f] * 100 = nutrition_data[FieldColumn[f]][i] * w

\* C1: for every stage and every weight in 1..500 the scaling yields, in each
\* of the six fields, exactly the per-100 g value times weight/100, unrounded
\* and unclamped; the fully dried stage at 50 g gives 24.25, 3.1, 128, 600,
\* 3.7 and 5.6.
C1_ExactScaling ==
    (call.page # <<>> /\ call.product_stage \in KnownStages /\ InRange(call.weight))
    => /\ call.page[1].error = ""
       /\ call.page[1].nutrition_results # <<>>
       /\ ExactlyScaled(call.page[1].nutrition_results[1],
                        StagePos(call.product_stage), call.weight)
       /\ (call.product_stage = nutrition_data.Etap[3] /\ call.weight = 50)
          => call.page[1].nutrition_results[1] =
                [Belki |-> 24250, Zhiry |-> 3100, Kalorii |-> 128000,
                 Natriy |-> 600000, Zhelezo |-> 3700, Tsink |-> 5600]

C1_Witness ==
    /\ call.page # <<>>
    /\ call.product_stage = nutrition_data.Etap[3]
    /\ call.weight = 50
    /\ call.page[1].nutrition_results # <<>>
    /\ call.page[1].nutrition_results[1].Belki = 24250

C3_ParamsAligned ==
    \A s \in Sessions : sess[s].started =>
        LET p == sess[s].page[1]
        IN  /\ Len(p.dfs.nutrition_df.rows) = 3
            /\ Len(p.dfs.processing_df.rows) = Len(p.dfs.nutrition_df.rows)
            /\ \A i \in 0..2 :
                  p.product_stage = p.dfs.nutrition_df.rows[i + 1].Etap
                  => /\ p.stage_index = <<i>>
                     /\ p.params =
                          <<[c \in DOMAIN processing_params |->
                                processing_params[c][i + 1]]>>
                     /\ p.params[1] = p.dfs.processing_df.rows[i + 1]

C3_Witness ==
    \E s \in Sessions :
        /\ sess[s].started
        /\ sess[s].page[1].product_stage = nutrition_data.Etap[3]
        /\ sess[s].page[1].params # <<>>
        /\ sess[s].page[1].params[1].Vremya_sushki_dni = 30
        /\ sess[s].page[1].params[1].Vremya_zasolki_dni = 7

C5_LoadedOnce ==
    [][\A s \in Sessions :
          /\ bodyRuns'[s] <= 1
          /\ (sess[s].started /\ sess'[s].started)
             => sess'[s].page[1].dfs = sess[s].page[1].dfs]_vars

C5_Witness ==
    /\ sess["s1"].started
    /\ bodyRuns["s1"] = 1
    /\ sess["s1"].position = 2
    /\ sess["s1"].number = min_value
    /\ sess["s1"].page[1].pressed

\* C6 as claimed: each session constructs and memoizes its own dataset.
C6_PerSessionDataset ==
    \A s \in Sessions : sess[s].started => bodyRuns[s] = 1

\* C6 as amended: the memoized dataset is shared by the sessions of the
\* process: the body of the loader runs once, in one session, all sessions see
\* the same tables and quality samples, and a step of one session changes
\* nothing another session sees.
C6_SharedDataset ==
    [][/\ \A s \in Sessions : bodyRuns'[s] <= 1
       /\ Cardinality({s \in Sessions : bodyRuns'[s] > 0}) <= 1
       /\ \A s, t \in Sessions :
             (sess'[s].started /\ sess'[t].started)
             => sess'[s].page[1].dfs = sess'[t].page[1].dfs
       /\ \A s, t \in Sessions :
             (s # t /\ sess'[s] # sess[s]) => sess'[t] = sess[t]]_vars

C6_Witness ==
    /\ sess["s1"].started
    /\ sess["s2"].started
    /\ bodyRuns["s1"] = 0
    /\ bodyRuns["s2"] = 1
    /\ sess["s1"].position # sess["s2"].position
    /\ sess["s1"].number # sess["s2"].number
    /\ sess["s1"].page[1].dfs.quality_df = sess["s2"].page[1].dfs.quality_df

\* C7: for a stage and weights w1 < w2 in 1..500, every field of the result
\* for w1 is at most the same field of the result for w2; all nutrition values
\* of the table are non-negative.
C7_Monotonic ==
    [][(/\ call.page # <<>>
        /\ call'.page # <<>>
        /\ call.product_stage \in KnownStages
        /\ call'.product_stage = call.product_stage
        /\ InRange(call.weight)
        /\ InRange(call'.weight)
        /\ call.weight < call'.weight)
       => /\ call.page[1].nutrition_results # <<>>
          /\ call'.page[1].nutrition_results # <<>>
          /\ \A f \in DOMAIN FieldColumn :
                call.page[1].nutrition_results[1][f]
                   <= call'.page[1].nutrition_results[1][f]
          /\ \A i \in 1..Len(call'.page[1].dfs.nutrition_df.rows) :
                \A c \in DOMAIN nutrition_data \ TextColumns :
                    call'.page[1].dfs.nutrition_df.rows[i][c] >= 0]_vars

C7_Witness ==
    /\ call.page # <<>>
    /\ call.product_stage = nutrition_data.Etap[1]
    /\ call.weight = max_value
    /\ call.page[1].nutrition_results # <<>>
    /\ call.page[1].nutrition_results[1].Natriy = 265000

\* C8: no run of the script changes the dataset: once loaded, the memoized
\* tables stay as they are, and every run ends with the three tables holding
\* the values that were loaded.
C8_DatasetNeverMutated ==
    [][/\ cache # {} => cache' = cache
       /\ \A s \in Sessions :
             sess'[s].started => sess'[s].page[1].dfs \in cache']_vars

C8_Witness ==
    \E s \in Sessions :
        /\ sess[s].started
        /\ sess[s].page[1].pressed
        /\ sess[s].position = 1
        /\ sess[s].number = min_value
        /\ sess[s].page[1].dfs \in cache

\* the text of the export, written out
NutritionCsv ==
    << << <<"Etap">>, <<"Vlaga_pct">>, <<"Belki_g">>, <<"Zhiry_g">>,
          <<"Kalorii_kkal">>, <<"Natriy_mg">>, <<"Zhelezo_mg">>, <<"Tsink_mg">> >>,
       << <<"Svezhaya konina">>, <<73, ".", 0>>, <<21, ".", 4>>, <<2, ".", 7>>,
          <<113>>, <<53>>, <<3, ".", 2>>, <<4, ".", 8>> >>,
       << <<"Poluvyalenaya konina">>, <<45, ".", 0>>, <<35, ".", 2>>, <<4, ".", 5>>,
          <<186>>, <<850>>, <<5, ".", 3>>, <<7, ".", 9>> >>,
       << <<"Polnostyu vyalenaya konina">>, <<18, ".", 0>>, <<48, ".", 5>>,
          <<6, ".", 2>>, <<256>>, <<1200>>, <<7, ".", 4>>, <<11, ".", 2>> >> >>

\* YYYYMMDD of the day `elapsed` days after the start
DateStamp(elapsed) ==
    IF elapsed = 0 THEN <<2, 0, 2, 6, 1, 2, 3, 1>>
    ELSE IF elapsed = 1 THEN <<2, 0, 2, 7, 0, 1, 0, 1>>
    ELSE LET d == now(elapsed)
         IN  Digits(d.year * 10000 + d.month * 100 + d.day, 8)

\* C9: a run offers a download exactly when it was triggered by a press of the
\* export button; the file then holds the header and the three rows of the
\* nutrition table, whatever stage and weight are selected, and is named
\* <prefix>_<YYYYMMDD>.csv for the day of the run.
C9_ExportOnlyOnPress ==
    [][\A s \in Sessions :
          sess'[s] # sess[s] =>
             LET p == sess'[s].page[1]
             IN  /\ (p.download # <<>>) <=> PressExport(s)
                 /\ p.download # <<>>
                    => /\ p.download[1].data = NutritionCsv
                       /\ p.download[1].file_name =
                             <<FilePrefix, "_">> \o DateStamp(clock) \o <<".csv">>
                       /\ p.download[1].mime = "text/csv"]_vars

C9_Witness ==
    \E s \in Sessions :
        /\ sess[s].started
        /\ sess[s].page[1].download # <<>>
        /\ sess[s].position = 2
        /\ sess[s].number = max_value
        /\ sess[s].page[1].download[1].file_name[3] = 2
        /\ sess[s].page[1].download[1].file_name[6] = 7

\* C10: in every reachable state the selected stage is a stage name of the
\* loaded nutrition table and the selected weight is an integer in 1..500, so
\* each run finds exactly one matching row and completes without an error.
C10_SelectionValid ==
    \A s \in Sessions :
        /\ sess[s].number \in min_value..max_value
        /\ sess[s].started =>
              LET p == sess[s].page[1]
              IN  /\ \E i \in 1..Len(p.dfs.nutrition_df.rows) :
                        p.product_stage = p.dfs.nutrition_df.rows[i].Etap
                  /\ p.weight \in min_value..max_value
                  /\ Len(BoolIndex(p.dfs.nutrition_df, "Etap", p.product_stage).index) = 1
                  /\ p.error = ""
                  /\ p.stage_index # <<>>
                  /\ p.params # <<>>
                  /\ p.nutrition_results # <<>>

C10_Witness ==
    \E s \in Sessions :
        /\ sess[s].started
        /\ sess[s].position = 2
        /\ sess[s].number = max_value
        /\ sess[s].page[1].weight = max_value
        /\ sess[s].page[1].error = ""

====
